---- MODULE Spec2Model ----
(***************************************************************************)
(* Model of src/api_server.py: the in-memory task registry, the           *)
(* background execution supervisor (run_task / run_task_async), the log   *)
(* capture handler (TaskLogHandler.emit) and the server-sent-event log    *)
(* stream (stream_task_logs.generate).                                     *)
(*                                                                         *)
(* One asyncio event loop runs everything: every action below is the code *)
(* between two suspension points (await / yield) of one coroutine.        *)
(***************************************************************************)
EXTENDS Integers, Sequences, FiniteSets, TLC

VARIABLES
    active_tasks,   \* dict task_id -> task record (a dict of fields)
    task_logs,      \* dict task_id -> list of captured goal texts
    log_listeners,  \* dict task_id -> reference to an asyncio.Queue
    queues,         \* the live asyncio.Queue objects: reference -> pending items
    handlers,       \* task ids of the TaskLogHandlers added to the 'browser_use' logger
    bg,             \* dict task_id -> the background unit run_task_async of that task
    sessions,       \* the streaming sessions (one generate() generator each)
    next_id,        \* number of uuid4 identifiers drawn so far, plus one
    now,            \* the wall clock read by datetime.utcnow()
    emitted,        \* number of log records the engine has written so far
    dropped,        \* <<task_id, text>> of every put_nowait that raised QueueFull
    resp            \* the last HTTP request handled and the response it got

vars == <<active_tasks, task_logs, log_listeners, queues, handlers, bg,
          sessions, next_id, now, emitted, dropped, resp>>

---------------------------------------------------------------------------
(* Bounds of the model.                                                    *)

\* tasks submitted in one run
MaxTasks == 1
\* streaming sessions opened in one run
MaxSessions == 2
\* log records written by the engine in one run
MaxEmits == 3
\* last value of the clock
MaxClock == 1
\* keepalives one session sends in one run
MaxKeepalives == 1
\* capacity of a listener queue: asyncio.Queue(maxsize=100), scaled down
QueueMaxsize == 2
\* entries replayed when a stream opens: task_logs[task_id][-10:], scaled down
ReplayLast == 2
\* microseconds in a second, scaled down
MicrosPerSecond == 2
\* tasks submitted in one run of SpecList
MaxListTasks == 3
\* last value of the clock in SpecList
MaxListClock == 3
\* tasks submitted in one run of SpecStream
MaxStreamTasks == 1
\* tasks submitted in one run of SpecRead
MaxReadTasks == 1
\* tasks submitted in one run of SpecCapture
MaxCaptureTasks == 2
\* log records written by the engine in one run of SpecCapture
MaxCaptureEmits == 3
\* streaming sessions opened in one run of SpecCapture
MaxCaptureSessions == 1
\* tasks submitted in one run of SpecBackpressure
MaxBackpressureTasks == 1
\* tasks submitted in one run of SpecIsolation
MaxIsolationTasks == 2

---------------------------------------------------------------------------
(* Python dicts and lists.                                                 *)

EmptyDict == [k \in {} |-> {}]

DictSet(d, k, v) == [x \in DOMAIN d \cup {k} |-> IF x = k THEN v ELSE d[x]]

DictUpdate(d, u) ==
    [x \in DOMAIN d \cup DOMAIN u |-> IF x \in DOMAIN u THEN u[x] ELSE d[x]]

DictPop(d, k) == [x \in DOMAIN d \ {k} |-> d[x]]

\* lst[-n:]
LastN(lst, n) ==
    IF Len(lst) <= n THEN lst ELSE SubSeq(lst, Len(lst) - n + 1, Len(lst))

\* lst[:limit], for a limit of either sign
SliceTo(lst, limit) ==
    LET stop == IF limit >= 0
                THEN (IF limit < Len(lst) THEN limit ELSE Len(lst))
                ELSE (IF Len(lst) + limit > 0 THEN Len(lst) + limit ELSE 0)
    IN SubSeq(lst, 1, stop)

Range(f) == {f[x] : x \in DOMAIN f}

---------------------------------------------------------------------------
(* Timestamps: datetime.utcnow().isoformat().  A string is a sequence of   *)
(* characters; the date and time of day are one character here, and the    *)
(* fraction ".ffffff" is left out by isoformat when it is zero.            *)

IsoFormat(t) ==
    LET second == t \div MicrosPerSecond
        micro  == t % MicrosPerSecond
    IN IF micro = 0 THEN <<second>> ELSE <<second, micro>>

\* Python's str < str: lexicographic, a proper prefix is smaller
StrLess(a, b) ==
    \E i \in 1..Len(b) :
        /\ \A j \in 1..(i - 1) : j <= Len(a) /\ a[j] = b[j]
        /\ (i > Len(a) \/ a[i] < b[i])

\* x.get(key, default)
DictGet(d, key, default) == IF key \in DOMAIN d THEN d[key] ELSE default

\* list(active_tasks.values()): a dict iterates in insertion order, which for
\* the registry is the order in which the identifiers were drawn
RECURSIVE ValuesFrom(_, _)
ValuesFrom(d, k) ==
    IF k >= next_id THEN <<>>
    ELSE IF k \in DOMAIN d THEN <<d[k]>> \o ValuesFrom(d, k + 1)
    ELSE ValuesFrom(d, k + 1)

DictValues(d) == ValuesFrom(d, 1)

SortKey(x) == DictGet(x, "started_at", <<>>)

\* the sort step with the comparison the wrong way round (oldest first)
InsertAsc(sorted, x) ==
    LET ahead == {i \in 1..Len(sorted) : ~StrLess(SortKey(x), SortKey(sorted[i]))}
        n == IF ahead = {} THEN 0 ELSE CHOOSE i \in ahead : \A j \in ahead : j <= i
    IN SubSeq(sorted, 1, n) \o <<x>> \o SubSeq(sorted, n + 1, Len(sorted))

\* one step of the stable descending sort: x goes behind every element whose
\* key is not smaller than its own
InsertDesc(sorted, x) ==
    LET ahead == {i \in 1..Len(sorted) : ~StrLess(SortKey(sorted[i]), SortKey(x))}
        n == IF ahead = {} THEN 0 ELSE CHOOSE i \in ahead : \A j \in ahead : j <= i
    IN SubSeq(sorted, 1, n) \o <<x>> \o SubSeq(sorted, n + 1, Len(sorted))

\* tasks.sort(key=lambda x: x.get("started_at", ""), reverse=True)
RECURSIVE SortByStartedDesc(_)
SortByStartedDesc(tasks) ==
    IF tasks = <<>> THEN <<>>
    ELSE InsertDesc(SortByStartedDesc(SubSeq(tasks, 1, Len(tasks) - 1)),
                    tasks[Len(tasks)])

---------------------------------------------------------------------------
(* Log records of the engine.  A message is a sequence of tokens: an ANSI  *)
(* colour code, the goal marker, white space, the words "Next" and         *)
(* "goal:", and text.  The text of record number n written by the          *)
(* execution of task src is the token Text(src, n).                        *)

Tok(kind) == [k |-> kind, src |-> 0, n |-> 0]

Text(src, n) == [k |-> "text", src |-> src, n |-> n]

\* the messages an execution may log as its record number n
LogMessages(src, n) ==
    { <<Tok("ansi"), Tok("mark"), Tok("sp"), Tok("next"), Tok("sp"), Tok("goal"),
        Tok("sp"), Text(src, n), Tok("sp"), Tok("ansi")>>,
      <<Tok("mark"), Tok("goal"), Text(src, n)>>,
      <<Tok("mark"), Tok("sp"), Text(src, n)>>,
      <<Tok("next"), Tok("sp"), Tok("goal"), Tok("sp"), Text(src, n)>> }

LogRecords(src, n) == {[msg |-> m] : m \in LogMessages(src, n)}

\* logging.Formatter('%(message)s').format(record)
Format(record) == record.msg

HasMarker(log_entry) == \E i \in 1..Len(log_entry) : log_entry[i].k = "mark"

\* re.sub(r'\[[\d;]*m', '', log_entry)
StripAnsi(log_entry) == SelectSeq(log_entry, LAMBDA c : c.k # "ansi")

\* first index from j on that holds no white space
SkipSpaces(s, j) ==
    CHOOSE m \in j..(Len(s) + 1) :
        /\ m = Len(s) + 1 \/ s[m].k # "sp"
        /\ \A x \in j..(m - 1) : s[x].k = "sp"

\* str.strip()
StripStr(s) ==
    LET keep == {i \in 1..Len(s) : s[i].k # "sp"}
    IN IF keep = {} THEN <<>>
       ELSE SubSeq(s, CHOOSE i \in keep : \A j \in keep : i <= j,
                      CHOOSE i \in keep : \A j \in keep : j <= i)

\* the pattern 🎯\s*(?:Next\s+)?[Gg]oal:?\s*(.+) tried at the marker at index i:
\* <<group(1).strip()>> on a match, <<>> on none
GoalAt(s, i) ==
    LET a == SkipSpaces(s, i + 1)
        hasNext == /\ a + 1 <= Len(s)
                   /\ s[a].k = "next"
                   /\ s[a + 1].k = "sp"
        b == IF hasNext THEN SkipSpaces(s, a + 1) ELSE a
    IN IF b < Len(s) /\ s[b].k = "goal"
       THEN <<StripStr(SubSeq(s, b + 1, Len(s)))>>
       ELSE <<>>

\* re.search(...): the leftmost marker at which the pattern matches
GoalSearch(s) ==
    LET hits == {i \in 1..Len(s) : s[i].k = "mark" /\ GoalAt(s, i) # <<>>}
    IN IF hits = {} THEN <<>>
       ELSE GoalAt(s, CHOOSE i \in hits : \A j \in hits : i <= j)

\* emit with the push first and the buffer append after it, given up when the
\* queue is full
HandlerEmitPushFirst(st, task_id, record) ==
    LET log_entry == Format(record)
    IN IF ~HasMarker(log_entry) THEN st
       ELSE LET goal_match == GoalSearch(StripAnsi(log_entry))
            IN IF goal_match = <<>> THEN st
               ELSE LET clean_goal == goal_match[1]
                        old == IF task_id \in DOMAIN st.logs
                               THEN st.logs[task_id] ELSE <<>>
                        logs2 == DictSet(st.logs, task_id, Append(old, clean_goal))
                    IN IF task_id \in DOMAIN log_listeners
                       THEN LET q == log_listeners[task_id]
                            IN IF Len(st.qs[q]) < QueueMaxsize
                               THEN [st EXCEPT !.logs = logs2,
                                               !.qs[q] = Append(@, clean_goal)]
                               ELSE [st EXCEPT !.dropped = @ \cup {<<task_id, clean_goal>>}]
                       ELSE [st EXCEPT !.logs = logs2]

\* TaskLogHandler.emit of the handler of task_id, on the shared maps
\* st = [logs, qs, dropped]; the listener map itself is only read
HandlerEmit(st, task_id, record) ==
    LET log_entry == Format(record)
    IN IF ~HasMarker(log_entry) THEN st
       ELSE LET goal_match == GoalSearch(StripAnsi(log_entry))
            IN IF goal_match = <<>> THEN st
               ELSE LET clean_goal == goal_match[1]
                        old == IF task_id \in DOMAIN st.logs
                               THEN st.logs[task_id] ELSE <<>>
                        logs2 == DictSet(st.logs, task_id, Append(old, clean_goal))
                    IN IF task_id \in DOMAIN log_listeners
                       THEN LET q == log_listeners[task_id]
                            IN IF Len(st.qs[q]) < QueueMaxsize
                               THEN [st EXCEPT !.logs = logs2,
                                               !.qs[q] = Append(@, clean_goal)]
                               ELSE [st EXCEPT !.logs = logs2,
                                               !.dropped = @ \cup {<<task_id, clean_goal>>}]
                       ELSE [st EXCEPT !.logs = logs2]

\* Logger.callHandlers: every handler of the logger gets the record, in the
\* order in which the handlers were added
RECURSIVE CallHandlers(_, _, _)
CallHandlers(st, hs, record) ==
    IF hs = {} THEN st
    ELSE LET h == CHOOSE x \in hs : \A y \in hs : x <= y
         IN CallHandlers(HandlerEmit(st, h, record), hs \ {h}, record)

---------------------------------------------------------------------------
(* Requests, responses and the external collaborator.                      *)

\* task texts a client submits (a text is a sequence of words)
Texts == {<<"find", "weather">>, <<"book", "flight">>}

\* enhanced_task: the task text followed by the answer-tag instructions
EnhancedTask(task) == task \o <<"IMPORTANT:", "wrap", "answer">>

\* an identifier that uuid4 never draws
UnknownIds == {0}

\* the identifiers a client sends: those it was given, and an unknown one
RequestIds == DOMAIN active_tasks \cup UnknownIds

\* the values of ?limit= (the default is 50)
Limits == {-1, 0, 1, 2, 50}

Response(op, id, code, body) == [op |-> op, id |-> id, code |-> code, body |-> body]

\* HTTPException(status_code=404, detail="Task not found")
NotFound(op, id) == Response(op, id, 404, <<[detail |-> "Task not found"]>>)

Fields == {"id", "status", "task", "started_at", "completed_at", "output",
           "error", "urls_visited", "actions", "steps"}

\* TaskStatusResponse(**task_data): an optional field that is not given is
\* None (<<>>), one that is given is <<value>>
TaskStatusResponse(task_data) ==
    [f \in Fields |->
        IF f \in {"id", "status"} THEN task_data[f]
        ELSE IF f \in DOMAIN task_data THEN <<task_data[f]>> ELSE <<>>]

\* str(e) of an exception
PyStr(e) == IF Len(e.args) = 0 THEN "" ELSE e.args[1]

NoError == [type |-> "", args |-> <<>>]

Errors == {[type |-> "ConnectionError", args |-> <<"timeout">>]}

\* what awaiting task_agent.run() and reading its result can do: return a
\* result, raise, or return a result whose accessors raise
RunOutcomes ==
    { [kind |-> "returned", final_result |-> "Sunny", urls |-> <<"https://w.com">>,
       action_names |-> <<"navigate", "extract">>, error |-> NoError],
      [kind |-> "returned", final_result |-> "", urls |-> <<>>,
       action_names |-> <<>>, error |-> NoError] }
    \cup {[kind |-> k, final_result |-> "", urls |-> <<>>, action_names |-> <<>>,
           error |-> e] : k \in {"raised", "unreadable"}, e \in Errors}

NoOutcome == [kind |-> "none", final_result |-> "", urls |-> <<>>,
              action_names |-> <<>>, error |-> NoError]

---------------------------------------------------------------------------
(* The initial state: the module's globals right after import.             *)

NoQueue == <<0, 0>>

\* a session: where its generator is suspended (pc), the task it streams, the
\* copied entries still to replay, the queue its get() waits on, what it has
\* sent (out), and for the record how many keepalives it has sent and how many
\* log records the engine had written when generate() started (since)
IdleSession == [pc |-> "idle", task_id |-> 0, replay |-> <<>>, q |-> NoQueue,
                out |-> <<>>, keepalives |-> 0, since |-> 0]

Init ==
    /\ active_tasks = EmptyDict
    /\ task_logs = EmptyDict
    /\ log_listeners = EmptyDict
    /\ queues = EmptyDict
    /\ handlers = {}
    /\ bg = EmptyDict
    /\ sessions = [s \in 1..MaxSessions |-> IdleSession]
    /\ next_id = 1
    /\ now = 0
    /\ emitted = 0
    /\ dropped = {}
    /\ resp = Response("none", 0, 0, <<>>)

\* the clock advances
Tick ==
    /\ now' = now + 1
    /\ UNCHANGED <<active_tasks, task_logs, log_listeners, queues, handlers, bg,
                   sessions, next_id, emitted, dropped, resp>>

---------------------------------------------------------------------------
(* POST /api/tasks                                                         *)

\* the record with the text handed to the agent instead of the client's
NewTaskRecordEnhanced(task_id, task) ==
    [id |-> task_id, status |-> "running", task |-> EnhancedTask(task),
     started_at |-> IsoFormat(now)]

\* the record stored at submission
NewTaskRecord(task_id, task) ==
    [id |-> task_id, status |-> "running", task |-> task,
     started_at |-> IsoFormat(now)]

\* run_task: the handler is added to the logger first; constructing the Agent
\* may raise (agent_ok = FALSE), which is answered with 500
run_task(task, agent_ok) ==
    LET task_id == next_id
    IN /\ next_id' = next_id + 1
       /\ handlers' = handlers \cup {task_id}
       /\ IF agent_ok
          THEN /\ active_tasks' = DictSet(active_tasks, task_id,
                                          NewTaskRecord(task_id, task))
               /\ bg' = DictSet(bg, task_id,
                                [pc |-> "queued", agent_task |-> EnhancedTask(task),
                                 result |-> NoOutcome])
               /\ resp' = Response("submit", task_id, 200,
                                   <<[id |-> task_id, status |-> "running",
                                      task |-> task,
                                      message |-> "Task started successfully"]>>)
          ELSE /\ resp' = Response("submit", 0, 500, <<[detail |-> "agent"]>>)
               /\ UNCHANGED <<active_tasks, bg>>
       /\ UNCHANGED <<task_logs, log_listeners, queues, sessions, now, emitted,
                      dropped>>

---------------------------------------------------------------------------
(* run_task_async: the background unit of one task                         *)

\* the background task starts and awaits task_agent.run()
StartExecution(task_id) ==
    /\ task_id \in DOMAIN bg
    /\ bg[task_id].pc = "queued"
    /\ bg' = [bg EXCEPT ![task_id].pc = "running"]
    /\ UNCHANGED <<active_tasks, task_logs, log_listeners, queues, handlers,
                   sessions, next_id, now, emitted, dropped, resp>>

\* the running execution of task_id writes one record to the 'browser_use'
\* logger
EngineLog(task_id, record) ==
    /\ task_id \in DOMAIN bg
    /\ bg[task_id].pc = "running"
    /\ emitted' = emitted + 1
    /\ LET st == CallHandlers([logs |-> task_logs, qs |-> queues,
                               dropped |-> dropped], handlers, record)
       IN /\ task_logs' = st.logs
          /\ queues' = st.qs
          /\ dropped' = st.dropped
    /\ UNCHANGED <<active_tasks, log_listeners, handlers, bg, sessions, next_id,
                   now, resp>>

\* the update counting the visited URLs as the steps
FinishedUpdateCountsUrls(result) ==
    [status |-> "finished",
     completed_at |-> IsoFormat(now),
     output |-> result.final_result,
     urls_visited |-> result.urls,
     actions |-> result.action_names,
     steps |-> Len(result.urls)]

\* the fields of the update after a run that returned
FinishedUpdate(result) ==
    [status |-> "finished",
     completed_at |-> IsoFormat(now),
     output |-> result.final_result,
     urls_visited |-> result.urls,
     actions |-> result.action_names,
     steps |-> Len(result.action_names)]

\* the update recording the exception's type instead of str(e)
FailedUpdateTypeName(e) ==
    [status |-> "failed",
     completed_at |-> IsoFormat(now),
     error |-> e.type]

\* the fields of the update in the except branch
FailedUpdate(e) ==
    [status |-> "failed",
     completed_at |-> IsoFormat(now),
     error |-> PyStr(e)]

\* the supervisor leaving a record alone once it is marked stopped
ReconcileUnlessStopped(tasks, task_id, outcome) ==
    IF task_id \notin DOMAIN tasks \/ tasks[task_id].status = "stopped" THEN tasks
    ELSE IF outcome.kind = "returned"
    THEN DictSet(tasks, task_id, DictUpdate(tasks[task_id], FinishedUpdate(outcome)))
    ELSE DictSet(tasks, task_id, DictUpdate(tasks[task_id], FailedUpdate(outcome.error)))

\* the finished update applied field by field, so that a result whose
\* accessors raise leaves the fields written before the raise and the failed
\* update comes on top of them
ReconcileFieldByField(tasks, task_id, outcome) ==
    IF task_id \notin DOMAIN tasks THEN tasks
    ELSE IF outcome.kind = "returned"
    THEN DictSet(tasks, task_id, DictUpdate(tasks[task_id], FinishedUpdate(outcome)))
    ELSE IF outcome.kind = "unreadable"
    THEN DictSet(tasks, task_id,
                 DictUpdate(DictUpdate(tasks[task_id],
                                       [status |-> "finished",
                                        completed_at |-> IsoFormat(now),
                                        output |-> outcome.final_result]),
                            FailedUpdate(outcome.error)))
    ELSE DictSet(tasks, task_id, DictUpdate(tasks[task_id], FailedUpdate(outcome.error)))

\* a failure that marks every record still running as failed
ReconcileFailingAll(tasks, task_id, outcome) ==
    IF task_id \notin DOMAIN tasks THEN tasks
    ELSE IF outcome.kind = "returned"
    THEN DictSet(tasks, task_id, DictUpdate(tasks[task_id], FinishedUpdate(outcome)))
    ELSE [t \in DOMAIN tasks |->
             IF t = task_id \/ tasks[t].status = "running"
             THEN DictUpdate(tasks[t], FailedUpdate(outcome.error))
             ELSE tasks[t]]

\* the registry after the try/except of run_task_async; a missing record makes
\* both updates raise KeyError and leaves the registry as it is
Reconcile(tasks, task_id, outcome) ==
    IF task_id \notin DOMAIN tasks THEN tasks
    ELSE IF outcome.kind = "returned"
    THEN DictSet(tasks, task_id, DictUpdate(tasks[task_id], FinishedUpdate(outcome)))
    ELSE DictSet(tasks, task_id, DictUpdate(tasks[task_id], FailedUpdate(outcome.error)))

\* the update written without awaiting the run: the unit writes it when it
\* starts, and the execution is in flight afterwards
FinalizeWithoutAwait(task_id, outcome) ==
    /\ task_id \in DOMAIN bg
    /\ bg[task_id].pc = "queued"
    /\ active_tasks' = Reconcile(active_tasks, task_id, outcome)
    /\ handlers' = handlers \ {task_id}
    /\ bg' = [bg EXCEPT ![task_id].pc = "running", ![task_id].result = outcome]
    /\ UNCHANGED <<task_logs, log_listeners, queues, sessions, next_id, now,
                   emitted, dropped, resp>>

\* task_agent.run() ends; the update, the removal of the handler and the
\* creation of the cleanup task follow without a suspension point
Finalize(task_id, outcome) ==
    /\ task_id \in DOMAIN bg
    /\ bg[task_id].pc = "running"
    /\ active_tasks' = Reconcile(active_tasks, task_id, outcome)
    /\ handlers' = handlers \ {task_id}
    /\ bg' = [bg EXCEPT ![task_id].pc = "sleeping", ![task_id].result = outcome]
    /\ UNCHANGED <<task_logs, log_listeners, queues, sessions, next_id, now,
                   emitted, dropped, resp>>

\* the asyncio.Queue objects still referenced: by the listener map, or by a
\* session suspended in get()
LiveQueues(listeners, sess) ==
    Range(listeners) \cup {sess[s].q : s \in {x \in DOMAIN sess : sess[x].pc = "wait"}}

Collect(qs, listeners, sess) ==
    [q \in DOMAIN qs \cap LiveQueues(listeners, sess) |-> qs[q]]

\* cleanup_logs, after its sleep
cleanup_logs(task_id) ==
    /\ task_id \in DOMAIN bg
    /\ bg[task_id].pc = "sleeping"
    /\ task_logs' = DictPop(task_logs, task_id)
    /\ log_listeners' = DictPop(log_listeners, task_id)
    /\ queues' = Collect(queues, log_listeners', sessions)
    /\ bg' = [bg EXCEPT ![task_id].pc = "done"]
    /\ UNCHANGED <<active_tasks, handlers, sessions, next_id, now, emitted,
                   dropped, resp>>

---------------------------------------------------------------------------
(* The per-task endpoints and the listing                                  *)

\* the answer of the two status reads: 404, or the record as a
\* TaskStatusResponse
GetTaskResponse(op, task_id) ==
    IF task_id \notin DOMAIN active_tasks
    THEN NotFound(op, task_id)
    ELSE Response(op, task_id, 200, <<TaskStatusResponse(active_tasks[task_id])>>)

\* GET /api/tasks/{task_id}
get_task(task_id) ==
    /\ resp' = GetTaskResponse("get", task_id)
    /\ UNCHANGED <<active_tasks, task_logs, log_listeners, queues, handlers, bg,
                   sessions, next_id, now, emitted, dropped>>

\* a status read that makes sure the task has a log buffer
get_task_status_setdefault(task_id) ==
    /\ resp' = GetTaskResponse("status", task_id)
    /\ task_logs' = IF task_id \in DOMAIN task_logs THEN task_logs
                    ELSE DictSet(task_logs, task_id, <<>>)
    /\ UNCHANGED <<active_tasks, log_listeners, queues, handlers, bg,
                   sessions, next_id, now, emitted, dropped>>

\* GET /api/tasks/{task_id}/status
get_task_status(task_id) ==
    /\ resp' = GetTaskResponse("status", task_id)
    /\ UNCHANGED <<active_tasks, task_logs, log_listeners, queues, handlers, bg,
                   sessions, next_id, now, emitted, dropped>>

\* PUT /api/tasks/{task_id}/pause
pause_task(task_id) ==
    /\ IF task_id \notin DOMAIN active_tasks
       THEN /\ resp' = NotFound("pause", task_id)
            /\ UNCHANGED active_tasks
       ELSE /\ active_tasks' = [active_tasks EXCEPT ![task_id] =
                                   DictSet(@, "status", "paused")]
            /\ resp' = Response("pause", task_id, 200,
                                <<[message |-> "Task marked as paused"]>>)
    /\ UNCHANGED <<task_logs, log_listeners, queues, handlers, bg, sessions,
                   next_id, now, emitted, dropped>>

\* PUT /api/tasks/{task_id}/resume
resume_task(task_id) ==
    /\ IF task_id \notin DOMAIN active_tasks
       THEN /\ resp' = NotFound("resume", task_id)
            /\ UNCHANGED active_tasks
       ELSE /\ active_tasks' = [active_tasks EXCEPT ![task_id] =
                                   DictSet(@, "status", "running")]
            /\ resp' = Response("resume", task_id, 200,
                                <<[message |-> "Task marked as running"]>>)
    /\ UNCHANGED <<task_logs, log_listeners, queues, handlers, bg, sessions,
                   next_id, now, emitted, dropped>>

\* PUT /api/tasks/{task_id}/stop
stop_task(task_id) ==
    /\ IF task_id \notin DOMAIN active_tasks
       THEN /\ resp' = NotFound("stop", task_id)
            /\ UNCHANGED active_tasks
       ELSE /\ active_tasks' = [active_tasks EXCEPT ![task_id] =
                                   DictSet(DictSet(@, "status", "stopped"),
                                           "completed_at", IsoFormat(now))]
            /\ resp' = Response("stop", task_id, 200,
                                <<[message |-> "Task marked as stopped"]>>)
    /\ UNCHANGED <<task_logs, log_listeners, queues, handlers, bg, sessions,
                   next_id, now, emitted, dropped>>

\* GET /api/tasks?limit=
list_tasks(limit) ==
    /\ LET tasks == SortByStartedDesc(DictValues(active_tasks))
       IN resp' = Response("list", limit, 200, SliceTo(tasks, limit))
    /\ UNCHANGED <<active_tasks, task_logs, log_listeners, queues, handlers, bg,
                   sessions, next_id, now, emitted, dropped>>

---------------------------------------------------------------------------
(* GET /api/tasks/{task_id}/logs: one generate() generator per session     *)

\* f"data: {log_entry}\n\n"
SseData(log_entry) == [data |-> log_entry]

\* the text of "data: keepalive\n\n"
KeepaliveText == <<Text(0, 0)>>

\* a reference no live queue has
FreshQueue(task_id) ==
    <<task_id, CHOOSE k \in 1..(Cardinality(DOMAIN queues) + 1) :
                   /\ <<task_id, k>> \notin DOMAIN queues
                   /\ \A j \in 1..(k - 1) : <<task_id, j>> \in DOMAIN queues>>

\* stream_task_logs: the StreamingResponse is returned; generate() has not
\* run yet
stream_task_logs(s, task_id) ==
    /\ sessions[s].pc = "idle"
    /\ \A x \in 1..(s - 1) : sessions[x].pc # "idle"
    /\ sessions' = [sessions EXCEPT ![s] = [IdleSession EXCEPT !.pc = "opened",
                                                               !.task_id = task_id]]
    /\ resp' = Response("logs", task_id, 200, <<>>)
    /\ UNCHANGED <<active_tasks, task_logs, log_listeners, queues, handlers, bg,
                   next_id, now, emitted, dropped>>

\* the head of the while loop: log_listeners[task_id].get() is evaluated; a
\* missing key raises KeyError, which "except Exception: pass" turns into the
\* end of the generator
AwaitNext(sn, listeners) ==
    IF sn.task_id \in DOMAIN listeners
    THEN [sn EXCEPT !.pc = "wait", !.q = listeners[sn.task_id]]
    ELSE [sn EXCEPT !.pc = "ended", !.q = NoQueue]

\* generate() runs to its first suspension: the queue is created if the map
\* has none, the last entries of the buffer are copied, and the first of them
\* is sent (or, with none to send, the wait on the queue begins)
GenerateStart(s) ==
    LET sn == sessions[s]
        id == sn.task_id
        create == id \notin DOMAIN log_listeners
        q == FreshQueue(id)
        listeners1 == IF create THEN DictSet(log_listeners, id, q) ELSE log_listeners
        queues1 == IF create THEN DictSet(queues, q, <<>>) ELSE queues
        recent == IF id \in DOMAIN task_logs
                  THEN LastN(task_logs[id], ReplayLast) ELSE <<>>
    IN /\ sn.pc = "opened"
       /\ log_listeners' = listeners1
       /\ queues' = queues1
       /\ sessions' = [sessions EXCEPT ![s] =
              IF recent # <<>>
              THEN [sn EXCEPT !.pc = "replay", !.replay = Tail(recent),
                              !.since = emitted,
                              !.out = Append(@, SseData(Head(recent)))]
              ELSE AwaitNext([sn EXCEPT !.since = emitted], listeners1)]
       /\ UNCHANGED <<active_tasks, task_logs, handlers, bg, next_id, now, emitted,
                      dropped, resp>>

\* after the pacing sleep: the next copied entry is sent, or the copy is
\* exhausted and the wait on the queue begins
ReplayNext(s) ==
    LET sn == sessions[s]
    IN /\ sn.pc = "replay"
       /\ sessions' = [sessions EXCEPT ![s] =
              IF sn.replay # <<>>
              THEN [sn EXCEPT !.replay = Tail(@),
                              !.out = Append(@, SseData(Head(sn.replay)))]
              ELSE AwaitNext(sn, log_listeners)]
       /\ UNCHANGED <<active_tasks, task_logs, log_listeners, queues, handlers, bg,
                      next_id, now, emitted, dropped, resp>>

\* get() returns the oldest item of the queue the session waits on
WaitGet(s) ==
    LET sn == sessions[s]
    IN /\ sn.pc = "wait"
       /\ queues[sn.q] # <<>>
       /\ sessions' = [sessions EXCEPT ![s] =
              [sn EXCEPT !.pc = "yielded", !.q = NoQueue,
                         !.out = Append(@, SseData(Head(queues[sn.q])))]]
       /\ queues' = Collect([queues EXCEPT ![sn.q] = Tail(@)], log_listeners,
                            sessions')
       /\ UNCHANGED <<active_tasks, task_logs, log_listeners, handlers, bg, next_id,
                      now, emitted, dropped, resp>>

\* wait_for times out on an empty queue: a keepalive is sent
WaitTimeout(s) ==
    LET sn == sessions[s]
    IN /\ sn.pc = "wait"
       /\ queues[sn.q] = <<>>
       /\ sessions' = [sessions EXCEPT ![s] =
              [sn EXCEPT !.pc = "yielded", !.q = NoQueue,
                         !.keepalives = @ + 1,
                         !.out = Append(@, SseData(KeepaliveText))]]
       /\ queues' = Collect(queues, log_listeners, sessions')
       /\ UNCHANGED <<active_tasks, task_logs, log_listeners, handlers, bg, next_id,
                      now, emitted, dropped, resp>>

\* the generator is resumed after a yield of the while loop
LoopAgain(s) ==
    /\ sessions[s].pc = "yielded"
    /\ sessions' = [sessions EXCEPT ![s] = AwaitNext(@, log_listeners)]
    /\ UNCHANGED <<active_tasks, task_logs, log_listeners, queues, handlers, bg,
                   next_id, now, emitted, dropped, resp>>

\* the client disconnects: the generator is closed at its suspension point
Disconnect(s) ==
    /\ sessions[s].pc \in {"opened", "replay", "wait", "yielded"}
    /\ sessions' = [sessions EXCEPT ![s].pc = "closed", ![s].q = NoQueue,
                                    ![s].replay = <<>>]
    /\ queues' = Collect(queues, log_listeners, sessions')
    /\ UNCHANGED <<active_tasks, task_logs, log_listeners, handlers, bg, next_id,
                   now, emitted, dropped, resp>>

---------------------------------------------------------------------------
(* The specifications                                                      *)

Submit == \E task \in Texts, agent_ok \in BOOLEAN : run_task(task, agent_ok)

\* the submissions of one text
SubmitText(task) == \E agent_ok \in BOOLEAN : run_task(task, agent_ok)

Supervise ==
    \/ \E task_id \in DOMAIN bg : StartExecution(task_id)
    \/ \E task_id \in DOMAIN bg, outcome \in RunOutcomes : Finalize(task_id, outcome)
    \/ \E task_id \in DOMAIN bg : cleanup_logs(task_id)

Engine ==
    \E task_id \in DOMAIN bg :
        \E record \in LogRecords(task_id, emitted + 1) : EngineLog(task_id, record)

Query ==
    \/ \E task_id \in RequestIds : get_task(task_id)
    \/ \E task_id \in RequestIds : get_task_status(task_id)
    \/ \E limit \in Limits : list_tasks(limit)

Control ==
    \/ \E task_id \in RequestIds : pause_task(task_id)
    \/ \E task_id \in RequestIds : resume_task(task_id)
    \/ \E task_id \in RequestIds : stop_task(task_id)

\* a session suspended in get() on a queue that holds an item: the event loop
\* has its wake-up among the ready callbacks, which run before any timer that
\* expires or request that arrives later
GetterReady ==
    \E s \in 1..MaxSessions : sessions[s].pc = "wait" /\ queues[sessions[s].q] # <<>>

\* the steps of the sessions; all but the return of get() are triggered by a
\* timer or by the client's connection
Stream ==
    \/ \E s \in 1..MaxSessions : WaitGet(s)
    \/ ~GetterReady /\ \E s \in 1..MaxSessions, task_id \in RequestIds :
                           stream_task_logs(s, task_id)
    \/ ~GetterReady /\ \E s \in 1..MaxSessions : GenerateStart(s)
    \/ ~GetterReady /\ \E s \in 1..MaxSessions : ReplayNext(s)
    \/ ~GetterReady /\ \E s \in 1..MaxSessions :
                           sessions[s].keepalives < MaxKeepalives /\ WaitTimeout(s)
    \/ ~GetterReady /\ \E s \in 1..MaxSessions : LoopAgain(s)
    \/ ~GetterReady /\ \E s \in 1..MaxSessions : Disconnect(s)

\* the registry and the supervisor: submissions (of one text), executions
\* and their finalization, and the advisory status requests
Next ==
    \/ now < MaxClock /\ Tick
    \/ next_id <= MaxTasks /\ SubmitText(<<"find", "weather">>)
    \/ Supervise
    \/ Control

Spec == Init /\ [][Next]_vars

\* the log stream: executions that write goal lines, the capture handlers,
\* the streaming sessions and the cleanup; the clock stands still and the
\* executions all fail the same way, as neither is read by these steps.  An
\* execution may log several records, and end, before it next suspends.
StreamOutcomes == {o \in RunOutcomes : o.kind = "raised"}

NextStream ==
    \/ ~GetterReady /\ next_id <= MaxStreamTasks /\ SubmitText(<<"find", "weather">>)
    \/ ~GetterReady /\ \E task_id \in DOMAIN bg : StartExecution(task_id)
    \/ \E task_id \in DOMAIN bg, outcome \in StreamOutcomes : Finalize(task_id, outcome)
    \/ ~GetterReady /\ \E task_id \in DOMAIN bg : cleanup_logs(task_id)
    \/ emitted < MaxEmits /\ Engine
    \/ Stream

SpecStream == Init /\ [][NextStream]_vars

\* the listing: submissions at the ticks of the clock, and list requests
NextList ==
    \/ now < MaxListClock /\ Tick
    \/ next_id <= MaxListTasks /\ Submit
    \/ \E limit \in Limits : list_tasks(limit)

SpecList == Init /\ [][NextList]_vars

\* the status reads: one task, its execution, the advisory status requests
\* and the two reads; the clock stands still
StatusReads ==
    \/ \E task_id \in RequestIds : get_task(task_id)
    \/ \E task_id \in RequestIds : get_task_status(task_id)

NextRead ==
    \/ next_id <= MaxReadTasks /\ SubmitText(<<"find", "weather">>)
    \/ Supervise
    \/ Control
    \/ StatusReads

SpecRead == Init /\ [][NextRead]_vars

\* the capture: concurrent executions that write goal lines, their handlers
\* on the one logger, and sessions whose generate() creates the queues and
\* reads them; the executions all fail the same way and no cleanup runs
NextCapture ==
    \/ ~GetterReady /\ next_id <= MaxCaptureTasks /\ SubmitText(<<"find", "weather">>)
    \/ ~GetterReady /\ \E task_id \in DOMAIN bg : StartExecution(task_id)
    \/ \E task_id \in DOMAIN bg, outcome \in StreamOutcomes : Finalize(task_id, outcome)
    \/ emitted < MaxCaptureEmits /\ Engine
    \/ \E s \in 1..MaxCaptureSessions : WaitGet(s)
    \/ ~GetterReady /\ \E s \in 1..MaxCaptureSessions, task_id \in RequestIds :
                           stream_task_logs(s, task_id)
    \/ ~GetterReady /\ \E s \in 1..MaxCaptureSessions : GenerateStart(s)
    \/ ~GetterReady /\ \E s \in 1..MaxCaptureSessions : ReplayNext(s)
    \/ ~GetterReady /\ \E s \in 1..MaxCaptureSessions : LoopAgain(s)

SpecCapture == Init /\ [][NextCapture]_vars

\* the capture against one listener: executions that write goal lines and
\* one streaming session, the first, that creates the queue and reads it
NextBackpressure ==
    \/ ~GetterReady /\ next_id <= MaxBackpressureTasks
                    /\ SubmitText(<<"find", "weather">>)
    \/ ~GetterReady /\ \E task_id \in DOMAIN bg : StartExecution(task_id)
    \/ \E task_id \in DOMAIN bg, outcome \in StreamOutcomes : Finalize(task_id, outcome)
    \/ emitted < MaxCaptureEmits /\ Engine
    \/ WaitGet(1)
    \/ ~GetterReady /\ \E task_id \in RequestIds : stream_task_logs(1, task_id)
    \/ ~GetterReady /\ GenerateStart(1)
    \/ ~GetterReady /\ ReplayNext(1)
    \/ ~GetterReady /\ LoopAgain(1)

SpecBackpressure == Init /\ [][NextBackpressure]_vars

\* concurrent executions: submissions, the background units of several
\* tasks with every outcome, and status reads; the clock stands still
NextIsolation ==
    \/ next_id <= MaxIsolationTasks /\ SubmitText(<<"find", "weather">>)
    \/ Supervise
    \/ \E task_id \in RequestIds : get_task_status(task_id)

SpecIsolation == Init /\ [][NextIsolation]_vars

---------------------------------------------------------------------------
(* Reading a step off the state                                            *)

\* a step of a request handler that answers as op: the response is that of
\* op, and nothing that only the other steps change has changed
RequestStep(op) ==
    /\ resp'.op = op
    /\ UNCHANGED <<now, next_id, bg, emitted, sessions>>

\* the time of day a timestamp string stands for
TimeOf(stamp) ==
    stamp[1] * MicrosPerSecond + (IF Len(stamp) > 1 THEN stamp[2] ELSE 0)

Min2(a, b) == IF a < b THEN a ELSE b

---------------------------------------------------------------------------
(* C10 *)

\* C10 - List ordering: a list request with limit N >= 0 answers with
\* min(N, number of records) records of the registry, no record twice, newest
\* submission first, no record left out being newer than one returned; the
\* request leaves the registry as it is.
C10_ListOrdering ==
    [][RequestStep("list") =>
        LET N == resp'.id
            body == resp'.body
        IN /\ active_tasks' = active_tasks
           /\ N >= 0 =>
                /\ Len(body) = Min2(N, Cardinality(DOMAIN active_tasks))
                /\ \A i \in 1..Len(body) :
                      /\ body[i].id \in DOMAIN active_tasks
                      /\ body[i] = active_tasks[body[i].id]
                /\ \A i, j \in 1..Len(body) :
                      i < j => /\ body[i].id # body[j].id
                               /\ TimeOf(body[i].started_at) >= TimeOf(body[j].started_at)
                /\ \A i \in 1..Len(body) :
                      \A t \in DOMAIN active_tasks \ {body[k].id : k \in 1..Len(body)} :
                          TimeOf(active_tasks[t].started_at) <= TimeOf(body[i].started_at)
    ]_vars

\* three tasks submitted at t1 < t2 < t3 are listed as t3, t2, t1
C10_Witness ==
    /\ resp.op = "list"
    /\ resp.id >= 3
    /\ Len(resp.body) = 3
    /\ TimeOf(resp.body[1].started_at) > TimeOf(resp.body[2].started_at)
    /\ TimeOf(resp.body[2].started_at) > TimeOf(resp.body[3].started_at)
    /\ <<resp.body[1].id, resp.body[2].id, resp.body[3].id>> = <<3, 2, 1>>

---------------------------------------------------------------------------
(* C4 - C8: the registry and the supervisor                                *)

\* the step in which run_task_async of task_id leaves its await and finalizes
FinalizeStep(task_id) ==
    /\ task_id \in DOMAIN bg
    /\ bg[task_id].pc = "running"
    /\ bg'[task_id].pc = "sleeping"

\* C4 - The recorded status changes only along running->finished,
\* running->failed, running->stopped, paused->stopped, running->paused and
\* paused->running; in particular a status of finished or failed is never
\* changed again by a pause, resume or stop request or by the supervisor.
\* Stated here: the part on finished and failed.
C4_TerminalStatusIsFinal ==
    [][\A t \in DOMAIN active_tasks :
          active_tasks[t].status \in {"finished", "failed"}
              => active_tasks'[t].status = active_tasks[t].status]_vars

\* C5 - Submission stores the record, with status running and the client's
\* text (not the enhanced text the agent gets), before the background unit is
\* launched; a status read in that state answers running and that text; and
\* every background unit has its record.
C5_SubmissionCreatesRecord ==
    /\ [](\A t \in DOMAIN bg : t \in DOMAIN active_tasks)
    /\ [][\A t \in DOMAIN active_tasks' \ DOMAIN active_tasks :
             /\ bg'[t].pc = "queued"
             /\ active_tasks'[t].status = "running"
             /\ active_tasks'[t].task \in Texts
             /\ EnhancedTask(active_tasks'[t].task) = bg'[t].agent_task
             /\ active_tasks'[t].task # bg'[t].agent_task
             /\ resp' = Response("submit", t, 200,
                                 <<[id |-> t, status |-> "running",
                                    task |-> active_tasks'[t].task,
                                    message |-> "Task started successfully"]>>)
             /\ LET got == GetTaskResponse("get", t)'
                IN /\ got.code = 200
                   /\ got.body[1].status = "running"
                   /\ got.body[1].task = <<active_tasks'[t].task>>
      ]_vars

\* a task was submitted and its background unit has not started
C5_Witness ==
    \E t \in DOMAIN bg :
        /\ bg[t].pc = "queued"
        /\ resp.op = "submit" /\ resp.code = 200 /\ resp.id = t
        /\ active_tasks[t].status = "running"
        /\ active_tasks[t].task = <<"find", "weather">>

\* C6 - When the execution returns, the supervisor merges into the record:
\* status finished, the completion timestamp, the final result as output, the
\* visited URLs, the action names and their number as steps, and leaves the
\* other fields; a record with steps always has steps = length of actions.
C6_FinishedUpdate ==
    /\ [](\A t \in DOMAIN active_tasks :
             "steps" \in DOMAIN active_tasks[t]
                 => /\ "actions" \in DOMAIN active_tasks[t]
                    /\ active_tasks[t].steps = Len(active_tasks[t].actions))
    /\ [][\A t \in DOMAIN bg :
             (FinalizeStep(t) /\ bg'[t].result.kind = "returned") =>
                LET result == bg'[t].result
                    before == active_tasks[t]
                    after == active_tasks'[t]
                IN /\ after.status = "finished"
                   /\ after.completed_at = IsoFormat(now)
                   /\ after.output = result.final_result
                   /\ after.urls_visited = result.urls
                   /\ after.actions = result.action_names
                   /\ after.steps = Len(result.action_names)
                   /\ DOMAIN after = DOMAIN before \cup
                        {"status", "completed_at", "output", "urls_visited",
                         "actions", "steps"}
                   /\ \A f \in {"id", "task", "started_at"} : after[f] = before[f]
      ]_vars

\* the run returned "Sunny" after two actions
C6_Witness ==
    \E t \in DOMAIN active_tasks :
        /\ bg[t].pc = "sleeping"
        /\ active_tasks[t].status = "finished"
        /\ active_tasks[t].output = "Sunny"
        /\ active_tasks[t].steps = 2
        /\ active_tasks[t].actions = <<"navigate", "extract">>

\* C7 - When the execution raises, no HTTP response is made of it: the
\* supervisor merges into the record status failed, the completion timestamp
\* and error = str(e), and adds no output, urls, actions or steps.
C7_FailedUpdate ==
    [][\A t \in DOMAIN bg :
          (FinalizeStep(t) /\ bg'[t].result.kind # "returned") =>
             LET before == active_tasks[t]
                 after == active_tasks'[t]
             IN /\ after.status = "failed"
                /\ after.completed_at = IsoFormat(now)
                /\ after.error = PyStr(bg'[t].result.error)
                /\ DOMAIN after = DOMAIN before \cup {"status", "completed_at", "error"}
                /\ \A f \in DOMAIN before \ {"status", "completed_at", "error"} :
                      after[f] = before[f]
                /\ resp' = resp
    ]_vars

\* the run raised ConnectionError("timeout")
C7_Witness ==
    \E t \in DOMAIN active_tasks :
        /\ bg[t].pc = "sleeping"
        /\ bg[t].result.kind = "raised"
        /\ active_tasks[t].status = "failed"
        /\ active_tasks[t].error = "timeout"
        /\ DOMAIN active_tasks[t] \cap {"output", "urls_visited", "actions", "steps"} = {}

\* C8 - A stop request on a running task sets status stopped and the
\* completion timestamp and leaves the background unit and its capture handler
\* as they are; an execution in flight under a stopped record can still end,
\* and when it ends its finished/failed update (status and completion
\* timestamp) replaces the stopped status.
C8_StopIsAdvisory ==
    /\ [](\A t \in DOMAIN active_tasks :
             (active_tasks[t].status = "stopped" /\ bg[t].pc = "running")
                 => \A outcome \in RunOutcomes : ENABLED Finalize(t, outcome))
    /\ [][\A t \in DOMAIN active_tasks :
             /\ (/\ RequestStep("stop")
                 /\ resp'.id = t
                 /\ active_tasks[t].status = "running")
                   => /\ resp'.code = 200
                      /\ active_tasks'[t].status = "stopped"
                      /\ active_tasks'[t].completed_at = IsoFormat(now)
                      /\ bg' = bg
                      /\ handlers' = handlers
             /\ (FinalizeStep(t) /\ active_tasks[t].status = "stopped")
                   => /\ active_tasks'[t].status \in {"finished", "failed"}
                      /\ active_tasks'[t].status =
                           (IF bg'[t].result.kind = "returned" THEN "finished" ELSE "failed")
                      /\ active_tasks'[t].completed_at = IsoFormat(now)
      ]_vars

\* the last request stopped a running task, and the execution has since ended
\* and written finished over it, with a later completion timestamp
C8_Witness ==
    \E t \in DOMAIN active_tasks :
        /\ resp.op = "stop" /\ resp.id = t /\ resp.code = 200
        /\ bg[t].pc = "sleeping"
        /\ active_tasks[t].status = "finished"
        /\ now > 0
        /\ active_tasks[t].completed_at = IsoFormat(now)

---------------------------------------------------------------------------
(* C1 - C3, C9: the log stream                                             *)

\* the sessions whose generator has started and neither ended nor was closed
Streaming == {s \in 1..MaxSessions : sessions[s].pc \in {"replay", "wait", "yielded"}}

\* the capture number of a captured goal text
EntryNo(entry) == entry[1].n

\* session s has been sent the entry
Delivered(s, entry) ==
    \E k \in 1..Len(sessions[s].out) : sessions[s].out[k] = SseData(entry)

\* the entry waits in a queue from which session s will read
Pending(s, entry) ==
    LET id == sessions[s].task_id
    IN \/ /\ id \in DOMAIN log_listeners
          /\ \E k \in 1..Len(queues[log_listeners[id]]) :
                queues[log_listeners[id]][k] = entry
       \/ /\ sessions[s].pc = "wait"
          /\ \E k \in 1..Len(queues[sessions[s].q]) : queues[sessions[s].q][k] = entry

\* C1 - Listener isolation: of two sessions streaming the same task, each has
\* been sent, or still has waiting in its queue, every entry that was captured
\* after both had started and that no full queue dropped.
C1_ListenerIsolation ==
    \A s1, s2 \in Streaming :
        (s1 # s2 /\ sessions[s1].task_id = sessions[s2].task_id
                 /\ sessions[s1].task_id \in DOMAIN task_logs) =>
            LET id == sessions[s1].task_id
            IN \A i \in 1..Len(task_logs[id]) :
                  LET entry == task_logs[id][i]
                  IN (/\ EntryNo(entry) > sessions[s1].since
                      /\ EntryNo(entry) > sessions[s2].since
                      /\ <<id, entry>> \notin dropped)
                        => /\ Delivered(s1, entry) \/ Pending(s1, entry)
                           /\ Delivered(s2, entry) \/ Pending(s2, entry)

\* C2 - Log ordering for one listener: in what a session has been sent,
\* keepalives left out, no entry comes after an entry captured later than it.
C2_CaptureOrder ==
    \A s \in 1..MaxSessions :
        LET out == sessions[s].out
        IN \A i, j \in 1..Len(out) :
              (i < j /\ out[i] # SseData(KeepaliveText) /\ out[j] # SseData(KeepaliveText))
                  => EntryNo(out[i].data) <= EntryNo(out[j].data)

PerTaskOps == {"get", "status", "pause", "resume", "stop", "logs"}

\* C3 - A per-task request (get, status, pause, resume, stop, log stream) for
\* an identifier that is not in the registry is answered NotFound, and no
\* unknown identifier becomes a key of the registry, the log buffers or the
\* listener queues.
C3_UnknownIdIsNotFound ==
    /\ (resp.op \in PerTaskOps /\ resp.id \notin DOMAIN active_tasks)
           => resp.code = 404
    /\ \A id \in UnknownIds :
           /\ id \notin DOMAIN active_tasks
           /\ id \notin DOMAIN task_logs
           /\ id \notin DOMAIN log_listeners

\* C9 - A streaming session ends only when the client disconnects: the
\* generator of a session never returns by itself.
C9_StreamNeverEnds ==
    \A s \in 1..MaxSessions : sessions[s].pc # "ended"

---------------------------------------------------------------------------
(* C11: the status reads                                                   *)

\* C11 - Idempotence of status reads: a get or status request leaves the
\* registry, the log buffers and the listener queues as they are and answers
\* with the record as it stands; a status request for a known task whose
\* record is still what the last status request reported (no submission,
\* pause, resume, stop or finalization has changed it) gets the same content.
C11_StatusReadIdempotent ==
    [][\A op \in {"get", "status"} :
          RequestStep(op) =>
              /\ active_tasks' = active_tasks
              /\ task_logs' = task_logs
              /\ log_listeners' = log_listeners
              /\ queues' = queues
              /\ handlers' = handlers
              /\ resp' = GetTaskResponse(op, resp'.id)
              /\ (/\ op = "status"
                  /\ resp.op = "status"
                  /\ resp.id = resp'.id
                  /\ resp.id \in DOMAIN active_tasks
                  /\ resp.body = <<TaskStatusResponse(active_tasks[resp.id])>>)
                    => resp' = resp
    ]_vars

\* the last request read the status of a finished task and got its output
C11_Witness ==
    /\ resp.op = "status" /\ resp.code = 200
    /\ resp.id \in DOMAIN active_tasks
    /\ resp.body[1].status = "finished"
    /\ resp.body[1].output = <<"Sunny">>
    /\ resp.body = <<TaskStatusResponse(active_tasks[resp.id])>>

---------------------------------------------------------------------------
(* C12: the life of a capture handler                                      *)

\* C12 - Every capture handler added to the logger at submission is removed
\* exactly once, and only when its task's execution has ended; none stays
\* on the logger forever: a handler on the logger is that of a task whose
\* background unit exists and has not yet finalized, and only the finalizing
\* step of that unit takes it off.
C12_HandlerDetachedOnce ==
    /\ \A h \in handlers : h \in DOMAIN bg /\ bg[h].pc \in {"queued", "running"}
    /\ \A t \in DOMAIN bg : bg[t].pc \in {"sleeping", "done"} => t \notin handlers

---------------------------------------------------------------------------
(* C13, C16: the capture                                                   *)

\* the tasks whose execution is in flight
InFlight == {t \in DOMAIN bg : bg[t].pc = "running"}

\* the execution that wrote the captured goal text
SourceOf(entry) == entry[1].src

\* C13 - A goal line written by one task's execution is appended only to
\* that task's log buffer and pushed only to that task's listener queue:
\* every entry of the buffer, and every item of the listener queue, of a
\* submitted task was written by that task's own execution.
C13_CaptureIsPerTask ==
    /\ \A t \in DOMAIN task_logs \cap DOMAIN bg :
          \A i \in 1..Len(task_logs[t]) : SourceOf(task_logs[t][i]) = t
    /\ \A t \in DOMAIN log_listeners \cap DOMAIN bg :
          \A i \in 1..Len(queues[log_listeners[t]]) :
              SourceOf(queues[log_listeners[t]][i]) = t

\* the step in which an execution writes a log record
CaptureStep == emitted' = emitted + 1

\* the buffer of a task, empty while the map has no key for it
Buffer(logs, t) == IF t \in DOMAIN logs THEN logs[t] ELSE <<>>

\* C16 - Capture with backpressure: a matched goal entry is appended to the
\* task's buffer whether or not a listener queue exists or is full; it is
\* pushed to the task's queue only if the queue exists and holds fewer than
\* the capacity, and is otherwise dropped from the queue (the queue stays as
\* it is, nothing is raised, nothing is retried); no queue ever holds more
\* than the capacity; and the step that writes a record is one step of the
\* execution, which is still running after it, also when the queue was full.
C16_CaptureBackpressure ==
    /\ [](\A q \in DOMAIN queues : Len(queues[q]) <= QueueMaxsize)
    /\ [](\A t \in InFlight : t \in handlers)
    /\ [][CaptureStep =>
            /\ UNCHANGED <<active_tasks, log_listeners, handlers, bg, sessions, resp>>
            /\ DOMAIN queues' = DOMAIN queues
            /\ \/ UNCHANGED <<task_logs, queues, dropped>>
               \/ \E t \in InFlight :
                     LET clean_goal == <<Text(t, emitted')>>
                     IN /\ task_logs'[t] = Append(Buffer(task_logs, t), clean_goal)
                        /\ t \in DOMAIN log_listeners =>
                              LET q == log_listeners[t]
                              IN IF Len(queues[q]) < QueueMaxsize
                                 THEN /\ queues'[q] = Append(queues[q], clean_goal)
                                      /\ <<t, clean_goal>> \notin dropped'
                                 ELSE /\ queues'[q] = queues[q]
                                      /\ <<t, clean_goal>> \in dropped'
                        /\ t \notin DOMAIN log_listeners =>
                              /\ <<t, clean_goal>> \notin dropped'
                              /\ \A q \in DOMAIN queues :
                                    q[1] = t => queues'[q] = queues[q]
      ]_vars

\* a goal entry found the task's queue full: it is in the buffer, not in the
\* queue, and the queue holds exactly the capacity
C16_Witness ==
    \E t \in DOMAIN log_listeners \cap DOMAIN task_logs :
        \E i \in 1..Len(task_logs[t]) :
            LET entry == task_logs[t][i]
                q == log_listeners[t]
            IN /\ SourceOf(entry) = t
               /\ <<t, entry>> \in dropped
               /\ Len(queues[q]) = QueueMaxsize
               /\ \A k \in 1..Len(queues[q]) : queues[q][k] # entry

---------------------------------------------------------------------------
(* C14, C15: the keys of the log maps                                      *)

\* C14 - For every task whose execution has ended, cleanup removes the task's
\* log buffer and its listener queue together, and from then on neither map
\* contains the task's identifier again: once the cleanup of a task has run,
\* the identifier is a key of neither map.
C14_CleanupIsFinal ==
    \A t \in DOMAIN bg :
        bg[t].pc = "done" => t \notin DOMAIN task_logs /\ t \notin DOMAIN log_listeners

\* C15 - Every identifier that is a key of the log-buffer map or of the
\* listener-queue map is a key of the task registry.
C15_LogKeysAreTasks ==
    /\ DOMAIN task_logs \subseteq DOMAIN active_tasks
    /\ DOMAIN log_listeners \subseteq DOMAIN active_tasks

---------------------------------------------------------------------------
(* C17 - C20: the supervisor's finalization                                *)

\* C17 - The supervisor writes finished or failed to a record only after the
\* task's execution has ended: no record carries finished or failed while
\* its execution is queued or in flight, and a status becomes finished or
\* failed only in the step in which the background unit leaves its await.
C17_FinalStatusAfterCompletion ==
    /\ [](\A t \in DOMAIN active_tasks :
             active_tasks[t].status \in {"finished", "failed"}
                 => bg[t].pc \in {"sleeping", "done"})
    /\ [][\A t \in DOMAIN active_tasks' :
             (/\ active_tasks'[t].status \in {"finished", "failed"}
              /\ \/ t \notin DOMAIN active_tasks
                 \/ active_tasks[t].status # active_tasks'[t].status)
                => FinalizeStep(t)
      ]_vars

\* an execution has raised, its record says failed, and the cleanup has run
C17_Witness ==
    \E t \in DOMAIN active_tasks :
        /\ bg[t].pc = "done"
        /\ bg[t].result.kind = "raised"
        /\ active_tasks[t].status = "failed"

\* the fields only the supervisor writes
SupervisorFields == {"output", "urls_visited", "actions", "steps", "error"}

\* the supervisor's fields of a record, as a record
Finalization(task_data) ==
    [f \in DOMAIN task_data \cap SupervisorFields |-> task_data[f]]

\* C18 - Exactly-one finalization: the supervisor writes to a task's record
\* at most once, in the step in which the execution ends, and in that step
\* it writes either the whole finished update or the failed update, never
\* both and never part of the finished update under the failed one, also
\* when the run returned and reading the result raised.
C18_ExactlyOneFinalization ==
    /\ [](\A t \in DOMAIN active_tasks :
             LET written == DOMAIN Finalization(active_tasks[t])
             IN /\ bg[t].pc \in {"queued", "running"} => written = {}
                /\ bg[t].pc \in {"sleeping", "done"} =>
                      IF bg[t].result.kind = "returned"
                      THEN written = {"output", "urls_visited", "actions", "steps"}
                      ELSE written = {"error"})
    /\ [][\A t \in DOMAIN bg :
             /\ bg[t].pc \in {"sleeping", "done"} =>
                   /\ bg'[t].pc \in {"sleeping", "done"}
                   /\ bg'[t].result = bg[t].result
             /\ ~FinalizeStep(t) =>
                   /\ t \in DOMAIN active_tasks =>
                         Finalization(active_tasks'[t]) = Finalization(active_tasks[t])
                   /\ bg'[t].result = bg[t].result
             /\ FinalizeStep(t) =>
                   /\ bg'[t].result.kind \in {"returned", "raised", "unreadable"}
                   /\ active_tasks'[t].status =
                         (IF bg'[t].result.kind = "returned" THEN "finished" ELSE "failed")
                   /\ active_tasks'[t].completed_at = IsoFormat(now)
      ]_vars

\* the run returned a result whose accessors raised: the record is failed,
\* with the error and with nothing of the finished update
C18_Witness ==
    \E t \in DOMAIN active_tasks :
        /\ bg[t].pc = "sleeping"
        /\ bg[t].result.kind = "unreadable"
        /\ active_tasks[t].status = "failed"
        /\ Finalization(active_tasks[t]) = [error |-> "timeout"]

\* C19 - Data-model invariant: a record has a completion timestamp only if
\* its status is finished, failed or stopped, an output only if its status
\* is finished, and an error text only if its status is failed.
C19_DataModelInvariant ==
    \A t \in DOMAIN active_tasks :
        LET task_data == active_tasks[t]
        IN /\ "completed_at" \in DOMAIN task_data
                 => task_data.status \in {"finished", "failed", "stopped"}
           /\ "output" \in DOMAIN task_data => task_data.status = "finished"
           /\ "error" \in DOMAIN task_data => task_data.status = "failed"

\* C20 - Failure isolation: the step in which one task's execution fails
\* changes that task's record only, in status, completion timestamp and
\* error; every other record, and every other background unit, is as before;
\* the other executions in flight can still finalize with any outcome; and
\* the service still takes a submission and answers a status read of every
\* record with that record.
C20_FailureIsolation ==
    /\ [](\A t \in DOMAIN bg :
             bg[t].pc \in {"sleeping", "done"} /\ bg[t].result.kind # "returned" =>
                /\ \A u \in InFlight : \A outcome \in RunOutcomes :
                       ENABLED Finalize(u, outcome)
                /\ ENABLED SubmitText(<<"find", "weather">>)
                /\ \A u \in DOMAIN active_tasks :
                       /\ ENABLED get_task_status(u)
                       /\ GetTaskResponse("status", u) =
                            Response("status", u, 200,
                                     <<TaskStatusResponse(active_tasks[u])>>))
    /\ [][\A t \in DOMAIN bg :
             (FinalizeStep(t) /\ bg'[t].result.kind # "returned") =>
                /\ DOMAIN active_tasks' = DOMAIN active_tasks
                /\ \A u \in DOMAIN active_tasks \ {t} : active_tasks'[u] = active_tasks[u]
                /\ \A u \in DOMAIN bg \ {t} : bg'[u] = bg[u]
                /\ \A f \in DOMAIN active_tasks[t] \ {"status", "completed_at", "error"} :
                       active_tasks'[t][f] = active_tasks[t][f]
                /\ handlers' = handlers \ {t}
                /\ UNCHANGED <<task_logs, log_listeners, queues, next_id, resp>>
      ]_vars

\* of two tasks, one has failed while the execution of the other is in
\* flight, and a status read of the failed one was answered since with its
\* error; the other record is still running
C20_Witness ==
    \E t, u \in DOMAIN active_tasks :
        /\ t # u
        /\ bg[t].pc = "sleeping"
        /\ bg[t].result.kind = "raised"
        /\ active_tasks[t].status = "failed"
        /\ u \in InFlight
        /\ active_tasks[u].status = "running"
        /\ resp.op = "status" /\ resp.id = t /\ resp.code = 200
        /\ resp.body[1].status = "failed"
        /\ resp.body[1].error = <<"timeout">>

====
